---------------------------- MODULE Spec2Model ----------------------------
(***************************************************************************)
(* Model of src/main.py: the extraction of topic and location phrases, the *)
(* conversion of country names to alpha-2 codes, the author fetch with its *)
(* sort, and the module-level driver.                                      *)
(*                                                                         *)
(* Line 118 of the source is read with the closing parenthesis of its      *)
(* parameter list and with Union imported; the function bodies are         *)
(* modelled as written.                                                    *)
(***************************************************************************)
EXTENDS Integers, Sequences, FiniteSets, TLC

VARIABLES
  pc,            \* position of the run within the specification at hand
  topics_in,     \* remove_stop_words: its argument `topics`
  all_topics,    \* remove_stop_words: all_topics before the join (line 96)
  rsw_out,       \* remove_stop_words: the returned list (line 99)
  split_context, \* anwser_question: the sentences of the context (line 45)
  answers,       \* anwser_question: the qa_model's answers so far (line 47)
  aq_out,        \* anwser_question: the returned list (line 54)
  countries_in,  \* convert_location_to_alpha2: its argument `countries`
  codes_out,     \* convert_location_to_alpha2: the returned list (line 169)
  ga_concepts,   \* get_authors: its argument `concepts`
  ga_country,    \* get_authors: its argument `country_code`
  requests,      \* get_authors: the author requests made by this call (line 141)
  api_authors,   \* get_authors: the records those requests returned, in order
  all_authors,   \* get_authors: all_authors (lines 132, 154)
  authors,       \* get_authors: the returned list (lines 157, 208)
  topics,        \* driver: the extracted topics (line 190)
  locations,     \* driver: the extracted locations (line 190)
  ti,            \* driver: iterations begun of the loop over the topics (line 197)
  concepts,      \* driver: the concepts of the current topic (line 199)
  country_codes, \* driver: the country codes of the current topic (line 204)
  ci,            \* driver: iterations begun of the loop over the codes (line 206)
  searches,      \* driver: the topics searched for concepts so far (line 110)
  header,        \* print_authors: the country header of the last call, or None
  printed,       \* print_authors: the authors printed by the last call
  message        \* driver: whether "No topics found!" was printed (line 213)

rswVars == <<topics_in, all_topics, rsw_out>>
aqVars == <<split_context, answers, aq_out>>
locVars == <<countries_in, codes_out>>
gaVars == <<ga_concepts, ga_country, requests, api_authors, all_authors, authors>>
drvVars == <<topics, locations, ti, concepts, country_codes, ci, searches,
             header, printed, message>>
vars == <<pc, rswVars, aqVars, locVars, gaVars, drvVars>>

None == "None"

----------------------------------------------------------------------------
(* Bounds of the explored inputs.                                          *)

\* remove_stop_words: phrases in the argument list
MaxPhrases == 2
\* remove_stop_words: whitespace-separated words over the whole argument
MaxWords == 3
\* anwser_question: sentences of the context
MaxSentences == 2
\* convert_location_to_alpha2: names in the argument list
MaxCountries == 3
\* get_authors on its own: concepts in the argument list
MaxRequests == 2
\* author records in one response of the authors endpoint
MaxAuthors == 2
\* concepts in one response of the concepts endpoint
MaxConcepts == 6

SeqsUpTo(S, n) == UNION {[1..k -> S] : k \in 0..n}

RECURSIVE SumSeq(_)
SumSeq(s) == IF s = <<>> THEN 0 ELSE Head(s) + SumSeq(Tail(s))

RECURSIVE Flatten(_)
Flatten(ss) == IF ss = <<>> THEN <<>> ELSE Head(ss) \o Flatten(Tail(ss))

----------------------------------------------------------------------------
(* nltk.word_tokenize, str.lower and the stop-word set (lines 79-88).      *)
(* A phrase is the sequence of its whitespace-separated words.             *)

Words == {"the", "The", "?", "don't", "Computer", "Science", "France,"}

\* word_tokenize on one whitespace-free word: trailing punctuation is split
\* off and a contraction is split before n't (Treebank rules).
WordTokens(w) ==
  CASE w = "France," -> <<"France", ",">>
    [] w = "don't"   -> <<"do", "n't">>
    [] OTHER         -> <<w>>

RECURSIVE word_tokenize(_)
word_tokenize(phrase) ==
  IF phrase = <<>> THEN <<>>
  ELSE WordTokens(Head(phrase)) \o word_tokenize(Tail(phrase))

Lower(word) ==
  CASE word = "The"      -> "the"
    [] word = "Computer" -> "computer"
    [] word = "Science"  -> "science"
    [] word = "France"   -> "france"
    [] word = "Germany"  -> "germany"
    [] word = "Italy"    -> "italy"
    [] word = "Botanic"  -> "botanic"
    [] word = "I"        -> "i"
    [] OTHER             -> word

\* stopwords.words('english') restricted to the words that can occur,
\* updated with '.', ',' and ';' (line 80).
stop_words ==
  {"i", "the", "and", "in", "do", "don", "don't", "t", "m", "am"}
    \cup {".", ",", ";"}

----------------------------------------------------------------------------
(* remove_stop_words (lines 69-99).  The loop state is the pair            *)
(* (all_topics, current_topic).                                            *)

\* lines 88-93: one iteration of the inner loop
OnWord(st, word) ==
  IF Lower(word) \notin stop_words
  THEN [all |-> st.all, cur |-> Append(st.cur, word)]
  ELSE IF Len(st.cur) > 0
       THEN [all |-> Append(st.all, st.cur), cur |-> <<>>]
       ELSE st

RECURSIVE WordLoop(_, _)
WordLoop(word_tokens, st) ==
  IF word_tokens = <<>> THEN st
  ELSE WordLoop(Tail(word_tokens), OnWord(st, Head(word_tokens)))

\* the flush left out: a run that ends its phrase is lost
EndOfTopic_NoFlush(st) == st.all

\* lines 95-96: the flush after the inner loop
EndOfTopic(st) ==
  IF Len(st.cur) > 0 THEN Append(st.all, st.cur) ELSE st.all

\* lines 84-96: one iteration of the outer loop
OnTopic(all, topic) ==
  EndOfTopic(WordLoop(word_tokenize(topic), [all |-> all, cur |-> <<>>]))

RECURSIVE TopicLoop(_, _)
TopicLoop(phrases, all) ==
  IF phrases = <<>> THEN all
  ELSE TopicLoop(Tail(phrases), OnTopic(all, Head(phrases)))

\* lines 82-96
CollectTopics(phrases) == TopicLoop(phrases, <<>>)

\* " ".join(topic)
RECURSIVE JoinTopic(_)
JoinTopic(topic) ==
  IF topic = <<>> THEN ""
  ELSE IF Len(topic) = 1 THEN Head(topic)
  ELSE Head(topic) \o " " \o JoinTopic(Tail(topic))

\* line 98
JoinAll(all) == [i \in 1..Len(all) |-> JoinTopic(all[i])]

remove_stop_words(phrases) == JoinAll(CollectTopics(phrases))

----------------------------------------------------------------------------
(* Specification of remove_stop_words on its own.                          *)

\* a list of phrases from the lengths of its phrases and its words in order
RECURSIVE SplitWords(_, _)
SplitWords(lens, flat) ==
  IF lens = <<>> THEN <<>>
  ELSE <<SubSeq(flat, 1, Head(lens))>>
         \o SplitWords(Tail(lens), SubSeq(flat, Head(lens) + 1, Len(flat)))

\* the lengths of the phrases of an argument list
PhraseLengths ==
  {l \in SeqsUpTo(0..MaxWords, MaxPhrases) : SumSeq(l) <= MaxWords}

IdleRSW == topics_in = <<>> /\ all_topics = <<>> /\ rsw_out = <<>>
IdleAQ == split_context = <<>> /\ answers = <<>> /\ aq_out = <<>>
IdleLoc == countries_in = <<>> /\ codes_out = <<>>
IdleGA ==
  /\ ga_concepts = <<>> /\ ga_country = None /\ requests = <<>>
  /\ api_authors = <<>> /\ all_authors = <<>> /\ authors = <<>>
IdleDriver ==
  /\ topics = <<>> /\ locations = <<>> /\ ti = 0 /\ concepts = <<>>
  /\ country_codes = <<>> /\ ci = 0 /\ searches = <<>>
  /\ header = None /\ printed = <<>> /\ message = FALSE

InitRSW ==
  /\ pc = "rsw_call"
  /\ IdleAQ /\ IdleLoc /\ IdleGA /\ IdleDriver
  /\ \E lens \in PhraseLengths :
       \E flat \in [1..SumSeq(lens) -> Words] :
         topics_in = SplitWords(lens, flat)
  /\ all_topics = <<>>
  /\ rsw_out = <<>>

CallRemoveStopWords ==
  /\ pc = "rsw_call"
  /\ all_topics' = CollectTopics(topics_in)
  /\ rsw_out' = remove_stop_words(topics_in)
  /\ pc' = "rsw_done"
  /\ UNCHANGED <<topics_in, aqVars, locVars, gaVars, drvVars>>

NextRSW == CallRemoveStopWords

SpecRSW == InitRSW /\ [][NextRSW]_vars

----------------------------------------------------------------------------
(* Runs of non-stop tokens, stated from positions rather than by the loop. *)

NonStop(tok) == Lower(tok) \notin stop_words

IsMaxRun(t, i, j) ==
  /\ i <= j
  /\ \A k \in i..j : NonStop(t[k])
  /\ (i = 1 \/ ~NonStop(t[i - 1]))
  /\ (j = Len(t) \/ ~NonStop(t[j + 1]))

MaxRuns(t) == {r \in (1..Len(t)) \X (1..Len(t)) : IsMaxRun(t, r[1], r[2])}

\* the maximal runs of t, leftmost first
MaxRunSeq(t) ==
  [k \in 1..Cardinality(MaxRuns(t)) |->
     LET r == CHOOSE r \in MaxRuns(t) :
                Cardinality({q \in MaxRuns(t) : q[1] < r[1]}) = k - 1
     IN  SubSeq(t, r[1], r[2])]

RECURSIVE SpaceJoined(_)
SpaceJoined(toks) ==
  IF Len(toks) = 1 THEN toks[1]
  ELSE SpaceJoined(SubSeq(toks, 1, Len(toks) - 1)) \o " " \o toks[Len(toks)]

TokensOfInput == Flatten([i \in 1..Len(topics_in) |-> word_tokenize(topics_in[i])])

----------------------------------------------------------------------------
(* Phrases made of stop-words and punctuation marks only.                  *)

PunctuationMarks == {".", ",", ";", "?", "!", ":"}

StopWordOrPunctuation(w) ==
  \/ Lower(w) \in stop_words
  \/ w \in PunctuationMarks

\* C3: for every input whose phrases are composed solely of stop-words and
\* punctuation, remove_stop_words returns the empty list.
C3_OnlyStopWords_Empty ==
  (/\ pc = "rsw_done"
   /\ \A i \in 1..Len(topics_in) :
        \A k \in 1..Len(topics_in[i]) : StopWordOrPunctuation(topics_in[i][k]))
    => rsw_out = <<>>

----------------------------------------------------------------------------
(* anwser_question (lines 35-54).  A score is held in hundredths.          *)

\* line 51: the confidence threshold 0.15
ScoreThreshold == 15

\* the comparison taken as >=
Confident_AtLeast(answer) == answer.score >= ScoreThreshold

\* line 51: the condition of the list comprehension
Confident(answer) == answer.score > ScoreThreshold

\* line 51
RECURSIVE Infos(_)
Infos(as) ==
  IF as = <<>> THEN <<>>
  ELSE IF Confident(Head(as)) THEN <<Head(as).answer>> \o Infos(Tail(as))
  ELSE Infos(Tail(as))

\* lines 51-54
FilteredInfos(as) == remove_stop_words(Infos(as))

\* what the qa_model may answer on one sentence: a span and its score
AnswerPhrases == { <<"Computer", "Science">>, <<"The", "France,">>, <<"the">> }
Scores == {0, ScoreThreshold, ScoreThreshold + 1}
QAAnswers == [answer : AnswerPhrases, score : Scores]

InitAQ ==
  /\ pc = "aq_ask"
  /\ IdleRSW /\ IdleLoc /\ IdleGA /\ IdleDriver
  /\ split_context \in {[i \in 1..n |-> i] : n \in 0..MaxSentences}
  /\ answers = <<>>
  /\ aq_out = <<>>

\* lines 48-49: one iteration, the qa_model answering on the next sentence
AskModel ==
  /\ pc = "aq_ask"
  /\ Len(answers) < Len(split_context)
  /\ \E a \in QAAnswers : answers' = Append(answers, a)
  /\ UNCHANGED <<pc, split_context, aq_out, rswVars, locVars, gaVars, drvVars>>

\* lines 51-54
FilterAndReturn ==
  /\ pc = "aq_ask"
  /\ Len(answers) = Len(split_context)
  /\ aq_out' = FilteredInfos(answers)
  /\ pc' = "aq_done"
  /\ UNCHANGED <<split_context, answers, rswVars, locVars, gaVars, drvVars>>

NextAQ == AskModel \/ FilterAndReturn

SpecAQ == InitAQ /\ [][NextAQ]_vars

\* the sentences whose answer scored above 0.15
ConfidentSentences == {i \in 1..Len(answers) : ~(answers[i].score <= ScoreThreshold)}

\* their answers, in sentence order
ConfidentAnswers ==
  [k \in 1..Cardinality(ConfidentSentences) |->
     LET i == CHOOSE i \in ConfidentSentences :
                Cardinality({j \in ConfidentSentences : j < i}) = k - 1
     IN  answers[i].answer]

\* C4: only the answers with a score above 0.15 are passed to
\* remove_stop_words, in sentence order; an answer with score <= 0.15
\* contributes nothing, and with no confident answer the result is empty.
C4_OnlyConfidentAnswers ==
  pc = "aq_done" =>
    /\ aq_out = remove_stop_words(ConfidentAnswers)
    /\ (ConfidentSentences = {} => aq_out = <<>>)

\* An answer at exactly 0.15 is dropped and the next one, just above, is kept.
C4_Witness ==
  /\ pc = "aq_done"
  /\ answers = << [answer |-> <<"Computer", "Science">>, score |-> ScoreThreshold],
                  [answer |-> <<"The", "France,">>, score |-> ScoreThreshold + 1] >>
  /\ aq_out = <<"France">>

----------------------------------------------------------------------------
(* convert_location_to_alpha2 (lines 159-169).                             *)

\* the value pycountry's lookup gives for a name its table does not hold
\* (Python's None, as a record so that it compares with a country record)
NoCountry == [is_none |-> TRUE, alpha_2 |-> None, name |-> None]

\* pycountry.countries.get(name = country)
countries_get(country) ==
  CASE country = "Germany" -> [is_none |-> FALSE, alpha_2 |-> "DE", name |-> "Germany"]
    [] country = "Italy"   -> [is_none |-> FALSE, alpha_2 |-> "IT", name |-> "Italy"]
    [] country = "France"  -> [is_none |-> FALSE, alpha_2 |-> "FR", name |-> "France"]
    [] OTHER               -> NoCountry

\* line 168
RECURSIVE FilteredCodes(_)
FilteredCodes(codes) ==
  IF codes = <<>> THEN <<>>
  ELSE IF ~Head(codes).is_none THEN <<Head(codes).alpha_2>> \o FilteredCodes(Tail(codes))
  ELSE FilteredCodes(Tail(codes))

\* the fallback to [None] left out
OrNoneList_NoFallback(filtered_codes) == filtered_codes

\* line 169
OrNoneList(filtered_codes) ==
  IF Len(filtered_codes) > 0 THEN filtered_codes ELSE <<None>>

\* lines 167-169
convert_location_to_alpha2(countries) ==
  LET codes == [i \in 1..Len(countries) |-> countries_get(countries[i])]
  IN  OrNoneList(FilteredCodes(codes))

CountryNames == {"Germany", "Tomato", "Italy", "France"}

InitLoc ==
  /\ pc = "loc_call"
  /\ IdleRSW /\ IdleAQ /\ IdleGA /\ IdleDriver
  /\ countries_in \in SeqsUpTo(CountryNames, MaxCountries)
  /\ codes_out = <<>>

CallConvertLocation ==
  /\ pc = "loc_call"
  /\ codes_out' = convert_location_to_alpha2(countries_in)
  /\ pc' = "loc_done"
  /\ UNCHANGED <<countries_in, rswVars, aqVars, gaVars, drvVars>>

NextLoc == CallConvertLocation

SpecLoc == InitLoc /\ [][NextLoc]_vars

\* the positions of the names the country table resolves
Resolvable(countries) == {i \in 1..Len(countries) : ~countries_get(countries[i]).is_none}

\* C2: the result holds the alpha-2 codes of exactly the resolvable names, in
\* input order; when no name resolves it is the one-element list [None]; it
\* is never empty and None occurs only as its sole element.
C2_ResolvableCodesOrNone ==
  pc = "loc_done" =>
    LET R == Resolvable(countries_in) IN
    /\ R # {} =>
         /\ Len(codes_out) = Cardinality(R)
         /\ \A i \in R :
              codes_out[Cardinality({j \in R : j <= i})] = countries_get(countries_in[i]).alpha_2
    /\ R = {} => codes_out = <<None>>
    /\ Len(codes_out) >= 1
    /\ (\E k \in 1..Len(codes_out) : codes_out[k] = None) => codes_out = <<None>>

\* The documented example: the unresolvable name between two resolvable ones.
C2_Witness ==
  /\ pc = "loc_done"
  /\ countries_in = <<"Germany", "Tomato", "Italy">>
  /\ codes_out = <<"DE", "IT">>

----------------------------------------------------------------------------
(* get_authors (lines 118-157).                                            *)

\* the quotient of two integers as a fraction in lowest terms
RECURSIVE GCD(_, _)
GCD(a, b) == IF b = 0 THEN a ELSE GCD(b, a % b)

\* the division taken as floor division (//)
FloorDiv(a, b) == [num |-> a \div b, den |-> 1]

\* line 147: cited_by_count / works_count, for works_count # 0
TrueDiv(a, b) == [num |-> a \div GCD(a, b), den |-> b \div GCD(a, b)]

\* lines 149-153
Association(lki) == IF lki # None THEN lki ELSE "No institution"

\* lines 143-153: the author dictionary built from one record of the response
AuthorOf(a) ==
  [display_name |-> a.display_name,
   cited_by_count |-> a.cited_by_count,
   works_count |-> a.works_count,
   citing_score |-> TrueDiv(a.cited_by_count, a.works_count),
   two_year_mean_citedness |-> a.two_year_mean_citedness,
   association |-> Association(a.last_known_institution)]

\* the division guarded, so that no record faults
Faults_Never(a) == FALSE

\* line 147 raises ZeroDivisionError on this record
Faults(a) == a.works_count = 0

\* line 136
ConceptFilter(concept) == "filter=concept.id:" \o concept.id

\* lines 136-138
BuildFilter(concept, country_code) ==
  IF country_code # None
  THEN ConceptFilter(concept) \o ",last_known_institution.country_code:" \o country_code
  ELSE ConceptFilter(concept)

\* line 141: the URL of the request
AuthorsUrl(filter) ==
  "https://api.openalex.org/authors?" \o filter \o "&per-page=100&sort=cited_by_count:desc"

\* the sort key without its second component
KeyLess_NoTieBreak(x, y) ==
  -1 * x.two_year_mean_citedness < -1 * y.two_year_mean_citedness

\* line 157: the sort key compares as a tuple, first component first
KeyLess(x, y) ==
  \/ -1 * x.two_year_mean_citedness < -1 * y.two_year_mean_citedness
  \/ /\ -1 * x.two_year_mean_citedness = -1 * y.two_year_mean_citedness
     /\ -1 * x.cited_by_count < -1 * y.cited_by_count

\* line 157: sorted() is stable; x goes before the first element it is less than
RECURSIVE InsertByKey(_, _)
InsertByKey(x, sorted) ==
  IF sorted = <<>> THEN <<x>>
  ELSE IF KeyLess(x, Head(sorted)) THEN <<x>> \o sorted
  ELSE <<Head(sorted)>> \o InsertByKey(x, Tail(sorted))

RECURSIVE SortedByKey(_)
SortedByKey(list) ==
  IF list = <<>> THEN <<>>
  ELSE InsertByKey(list[Len(list)], SortedByKey(SubSeq(list, 1, Len(list) - 1)))

\* lines 142-154 on one response: the authors appended before the loop ends
\* or a record faults
RECURSIVE Appended(_)
Appended(results) ==
  IF results = <<>> \/ Faults(Head(results)) THEN <<>>
  ELSE <<AuthorOf(Head(results))>> \o Appended(Tail(results))

AnyFaults(results) == \E k \in 1..Len(results) : Faults(results[k])

\* The records the authors endpoint may return.
Ada ==
  [display_name |-> "Ada", cited_by_count |-> 10, works_count |-> 5,
   two_year_mean_citedness |-> 3, last_known_institution |-> "MIT"]
Bob ==
  [display_name |-> "Bob", cited_by_count |-> 20, works_count |-> 8,
   two_year_mean_citedness |-> 3, last_known_institution |-> None]
Cy ==
  [display_name |-> "Cy", cited_by_count |-> 5, works_count |-> 2,
   two_year_mean_citedness |-> 7, last_known_institution |-> "ETH"]
Zed ==
  [display_name |-> "Zed", cited_by_count |-> 4, works_count |-> 0,
   two_year_mean_citedness |-> 1, last_known_institution |-> None]

AuthorPool == {Ada, Bob, Cy, Zed}

\* sort=cited_by_count:desc: a response lists distinct authors, most cited first
Responses(pool, maxlen) ==
  {r \in SeqsUpTo(pool, maxlen) :
     \A i, j \in 1..Len(r) :
       i < j => r[i] # r[j] /\ r[i].cited_by_count >= r[j].cited_by_count}

\* the concepts of a topic: only the id is read by get_authors
Concept(k) == [id |-> "C" \o ToString(k)]
ConceptList(n) == [k \in 1..n |-> Concept(k)]

InitGA ==
  /\ pc = "ga_loop"
  /\ IdleRSW /\ IdleAQ /\ IdleLoc /\ IdleDriver
  /\ ga_concepts \in {ConceptList(n) : n \in 0..MaxRequests}
  /\ ga_country \in {None, "DE"}
  /\ requests = <<>>
  /\ api_authors = <<>>
  /\ all_authors = <<>>
  /\ authors = <<>>

\* lines 133-154: one iteration of the loop over the concepts: the request,
\* then the loop over its results, which ends the call at a faulting record
RequestAuthors(pool) ==
  /\ pc = "ga_loop"
  /\ Len(requests) < Len(ga_concepts)
  /\ LET concept == ga_concepts[Len(requests) + 1]
         filter == BuildFilter(concept, ga_country)
     IN  /\ requests' = Append(requests, AuthorsUrl(filter))
         /\ \E results \in Responses(pool, MaxAuthors) :
              /\ api_authors' = api_authors \o results
              /\ all_authors' = all_authors \o Appended(results)
              /\ pc' = IF AnyFaults(results) THEN "fault" ELSE "ga_loop"
  /\ UNCHANGED <<ga_concepts, ga_country, authors, rswVars, aqVars, locVars, drvVars>>

\* line 157
SortAndReturn ==
  /\ pc = "ga_loop"
  /\ Len(requests) = Len(ga_concepts)
  /\ authors' = SortedByKey(all_authors)
  /\ pc' = "ga_returned"
  /\ UNCHANGED <<ga_concepts, ga_country, requests, api_authors, all_authors,
                 rswVars, aqVars, locVars, drvVars>>

NextGA == RequestAuthors(AuthorPool) \/ SortAndReturn

SpecGA == InitGA /\ [][NextGA]_vars

----------------------------------------------------------------------------
(* Properties of get_authors.                                              *)

\* what an author dictionary and an API record have in common
Core(a) ==
  <<a.display_name, a.cited_by_count, a.works_count, a.two_year_mean_citedness>>

Occurrences(list, c) == Cardinality({k \in 1..Len(list) : Core(list[k]) = c})

C5_CitingScore ==
  /\ pc \in {"ga_loop", "ga_returned"} =>
       /\ Len(all_authors) = Len(api_authors)
       /\ \A k \in 1..Len(all_authors) :
            /\ all_authors[k].cited_by_count = api_authors[k].cited_by_count
            /\ all_authors[k].works_count = api_authors[k].works_count
            /\ all_authors[k].display_name = api_authors[k].display_name
  /\ pc = "ga_returned" =>
       \A i \in 1..Len(authors) :
         /\ \E k \in 1..Len(all_authors) : authors[i] = all_authors[k]
         /\ authors[i].citing_score.den > 0
         /\ authors[i].citing_score.num * authors[i].works_count
              = authors[i].cited_by_count * authors[i].citing_score.den

\* A returned author whose quotient is not an integer: 20 / 8 = 5 / 2.
C5_Witness ==
  /\ pc = "ga_returned"
  /\ \E i \in 1..Len(authors) :
       /\ authors[i].cited_by_count = 20
       /\ authors[i].works_count = 8
       /\ authors[i].citing_score = [num |-> 5, den |-> 2]

----------------------------------------------------------------------------
(* print_authors (lines 171-187) and the driver (lines 189-213).           *)

\* pycountry.countries.get(alpha_2 = country_code)
countries_get_alpha_2(country_code) ==
  CASE country_code = "DE" -> countries_get("Germany")
    [] country_code = "IT" -> countries_get("Italy")
    [] country_code = "FR" -> countries_get("France")
    [] OTHER               -> NoCountry

\* lines 179-180: the header line, or None when none is printed
Header(country_code) ==
  IF country_code # None
  THEN "In " \o countries_get_alpha_2(country_code).name \o ":"
  ELSE None

\* list[:n]
Take(list, n) == SubSeq(list, 1, IF Len(list) < n THEN Len(list) ELSE n)

\* line 208: concepts[:5]
TopConcepts == 5
\* the slice left out
FirstConcepts_All(list) == list
FirstConcepts(list) == Take(list, TopConcepts)

\* line 210: authors[:5]
TopAuthors == 5
FirstAuthors(list) == Take(list, TopAuthors)

\* line 190: the hardcoded context is one sentence, so the qa_model gives one
\* answer to each question: a span of the sentence and a score
TopicAnswers ==
  [answer : { <<"Computer", "Science", "and", "Botanic">>, <<"Botanic">> },
   score : {ScoreThreshold, ScoreThreshold + 1}]
LocationAnswers ==
  [answer : { <<"Germany", "and", "Italy">>, <<"Botanic", "in", "Italy">> },
   score : {ScoreThreshold, ScoreThreshold + 1}]

\* the records the authors endpoint may return to the driver
DriverPool == {Ada, Cy, Zed}

InitDriver ==
  /\ pc = "start"
  /\ IdleRSW /\ IdleAQ /\ IdleLoc /\ IdleGA /\ IdleDriver

\* lines 190-192 (lines 57-67): extract_information asks both questions
ExtractInformation ==
  /\ pc = "start"
  /\ \E t \in TopicAnswers : topics' = FilteredInfos(<<t>>)
  /\ \E l \in LocationAnswers : locations' = FilteredInfos(<<l>>)
  /\ pc' = "branch"
  /\ UNCHANGED <<ti, concepts, country_codes, ci, searches, header, printed,
                 message, rswVars, aqVars, locVars, gaVars>>

\* lines 195, 212-213: no topics
NoTopics ==
  /\ pc = "branch"
  /\ ~(Len(topics) # 0)
  /\ message' = TRUE
  /\ pc' = "done"
  /\ UNCHANGED <<topics, locations, ti, concepts, country_codes, ci, searches,
                 header, printed, rswVars, aqVars, locVars, gaVars>>

\* lines 195, 197: some topics, the loop over them is entered
EnterTopics ==
  /\ pc = "branch"
  /\ Len(topics) # 0
  /\ pc' = "topics"
  /\ UNCHANGED <<rswVars, aqVars, locVars, gaVars, drvVars>>

\* lines 197-205: the next topic: get_concepts (lines 110-116), whose search
\* returns some number of concepts, and convert_location_to_alpha2
NextTopic ==
  /\ pc = "topics"
  /\ ti < Len(topics)
  /\ ti' = ti + 1
  /\ searches' = Append(searches, topics[ti + 1])
  /\ \E n \in 0..MaxConcepts : concepts' = ConceptList(n)
  /\ country_codes' = convert_location_to_alpha2(locations)
  /\ ci' = 0
  /\ pc' = "codes"
  /\ UNCHANGED <<topics, locations, header, printed, message,
                 rswVars, aqVars, locVars, gaVars>>

\* lines 206-208: the next country code: get_authors is called on the first
\* concepts (lines 132-133)
NextCountryCode ==
  /\ pc = "codes"
  /\ ci < Len(country_codes)
  /\ ci' = ci + 1
  /\ ga_concepts' = FirstConcepts(concepts)
  /\ ga_country' = country_codes[ci + 1]
  /\ requests' = <<>>
  /\ api_authors' = <<>>
  /\ all_authors' = <<>>
  /\ authors' = <<>>
  /\ header' = None
  /\ printed' = <<>>
  /\ pc' = "ga_loop"
  /\ UNCHANGED <<topics, locations, ti, concepts, country_codes, searches,
                 message, rswVars, aqVars, locVars>>

\* lines 210-211 (lines 179-187): print_authors on the first authors
PrintAuthors ==
  /\ pc = "ga_returned"
  /\ header' = Header(ga_country)
  /\ printed' = FirstAuthors(authors)
  /\ pc' = "codes"
  /\ UNCHANGED <<topics, locations, ti, concepts, country_codes, ci, searches,
                 message, rswVars, aqVars, locVars, gaVars>>

\* line 206: the codes are exhausted
EndCountryCodes ==
  /\ pc = "codes"
  /\ ci = Len(country_codes)
  /\ pc' = "topics"
  /\ UNCHANGED <<rswVars, aqVars, locVars, gaVars, drvVars>>

\* line 197: the topics are exhausted
EndTopics ==
  /\ pc = "topics"
  /\ ti = Len(topics)
  /\ pc' = "done"
  /\ UNCHANGED <<rswVars, aqVars, locVars, gaVars, drvVars>>

NextDriver ==
  \/ ExtractInformation
  \/ NoTopics
  \/ EnterTopics
  \/ NextTopic
  \/ NextCountryCode
  \/ RequestAuthors(DriverPool)
  \/ SortAndReturn
  \/ PrintAuthors
  \/ EndCountryCodes
  \/ EndTopics

SpecDriver == InitDriver /\ [][NextDriver]_vars

----------------------------------------------------------------------------
(* Properties of the driver.                                               *)

\* get_authors has been called for the current (topic, country code) pair
InPair ==
  \/ pc \in {"ga_loop", "ga_returned", "fault"}
  \/ pc = "codes" /\ ci > 0

\* print_authors has returned for the current pair
PairPrinted == pc = "codes" /\ ci > 0

\* the run has ended, normally or by the uncaught fault
RunEnded == pc \in {"done", "fault"}

\* C7: for each (topic, country code) pair the author requests are for the
\* first 5 concepts of the topic at most, in their order, and print_authors
\* prints the first 5 authors of the sorted result at most; an empty result
\* prints no author and the run goes on.
C7_TopFive ==
  /\ InPair =>
       /\ Len(requests) <= 5
       /\ Len(requests) <= Len(concepts)
       /\ \A k \in 1..Len(requests) :
            requests[k] = AuthorsUrl(BuildFilter(concepts[k], country_codes[ci]))
  /\ PairPrinted =>
       /\ Len(printed) <= 5
       /\ Len(printed) <= Len(authors)
       /\ \A k \in 1..Len(printed) : printed[k] = authors[k]
       /\ Len(authors) >= 5 => Len(printed) = 5
       /\ Len(authors) < 5 => Len(printed) = Len(authors)

\* A topic with six concepts, of which five were requested, and a sorted
\* result of more than five authors, of which five were printed.
C7_Witness ==
  /\ PairPrinted
  /\ Len(concepts) = 6
  /\ Len(requests) = 5
  /\ Len(authors) > 5
  /\ Len(printed) = 5

\* C9: a record with works_count = 0 in any response ends get_authors by a
\* fault: no list is returned, nothing is printed for the pair, and the run
\* takes no further step, so no later country code or topic is handled.
C9_ZeroWorksFault ==
  /\ (\E k \in 1..Len(api_authors) : api_authors[k].works_count = 0) => pc = "fault"
  /\ pc = "fault" =>
       /\ authors = <<>>
       /\ printed = <<>>
       /\ header = None
       /\ ~ENABLED NextDriver

\* The fault comes at the second request, after authors were accumulated,
\* with a later country code and a later topic still to come.
C9_Witness ==
  /\ pc = "fault"
  /\ Len(requests) = 2
  /\ all_authors # <<>>
  /\ ci < Len(country_codes)
  /\ ti < Len(topics)

\* C6: with no topic the message is printed and the run stops with no
\* concept request, location conversion, author request or print; with some
\* topic the message is never printed and every topic is processed, in
\* extraction order.
C6_BranchOnTopics ==
  /\ (pc # "start" /\ topics = <<>>) =>
       /\ RunEnded => message
       /\ searches = <<>>
       /\ country_codes = <<>>
       /\ requests = <<>>
       /\ printed = <<>>
       /\ header = None
  /\ topics # <<>> =>
       /\ ~message
       /\ searches = SubSeq(topics, 1, ti)
       /\ RunEnded => searches = topics

Max(a, b) == IF a >= b THEN a ELSE b

\* C10: for each topic the loop body runs max(1, number of resolvable
\* location names) times, once with None when no location resolves; the
\* request filter has the country clause, and print_authors prints the
\* header, exactly when the country code is not None.
C10_OncePerCountryCode ==
  /\ (ti > 0 /\ (pc = "topics" \/ RunEnded)) =>
       ci = Max(1, Cardinality(Resolvable(locations)))
  /\ (ti > 0 /\ Resolvable(locations) = {}) => country_codes = <<None>>
  /\ InPair =>
       \A k \in 1..Len(requests) :
         requests[k] =
           IF country_codes[ci] = None
           THEN AuthorsUrl("filter=concept.id:" \o concepts[k].id)
           ELSE AuthorsUrl("filter=concept.id:" \o concepts[k].id
                  \o ",last_known_institution.country_code:" \o country_codes[ci])
  /\ PairPrinted => (header = None <=> country_codes[ci] = None)

=============================================================================
